---- MODULE Spec2Model ----
(***************************************************************************)
(* Model of src/swqos/solana_rpc.rs: SolRpcClient, the plain-RPC           *)
(* implementation of SwqosClientTrait.                                     *)
(*                                                                         *)
(* A caller task runs one trait call at a time.  send_transaction          *)
(* suspends at two awaits: the RPC submission and the confirmation         *)
(* poller.  Everything between two awaits runs in one step.  The RPC       *)
(* client and the poller are collaborators outside this file: the RPC      *)
(* answers a submission with a fresh signature or an error, the poller     *)
(* answers Ok or an error after zero or more status queries.               *)
(***************************************************************************)
EXTENDS Integers, Sequences, FiniteSets, TLC

\* ---------------------------------------------------------------- bounds
MaxBatch == 2       \* longest list passed to send_transactions
MaxSigs  == 3       \* signatures the RPC hands out in one run
MaxTime  == 2       \* clock ticks (pending status queries) within one call

\* ---------------------------------------------------------------- values
Tasks == {"a", "b"}

Ok == "Ok"
SubmitErrs == {"rpc_rejected", "rpc_unreachable"}
PollErrs == {"timeout", "tx_failed"}
TradeTypes == {"Buy", "Sell"}

\* compiled instruction: program_id_index is 0-based into account_keys
Ix(p, accs, bytes) == [program_id_index |-> p, accounts |-> accs, data |-> bytes]

\* VersionedTransaction, reduced to its message: the variant tag, the
\* account key table and the instruction list.
Tx(v, keys, ixs) == [version |-> v, account_keys |-> keys, instructions |-> ixs]

NoTx == Tx("", <<>>, <<>>)

\* Well-formed transactions of both message shapes, a transaction without
\* instructions, and transactions whose second instruction names a program
\* id index past the end of the account key table.
TxGood(v) == Tx(v, <<11, 12>>, <<Ix(1, <<0>>, <<2, 0>>), Ix(0, <<0, 1>>, <<>>)>>)
TxEmpty(v) == Tx(v, <<11>>, <<>>)
TxBad(v) == Tx(v, <<11, 12>>, <<Ix(1, <<0>>, <<9>>), Ix(2, <<1>>, <<7>>)>>)

TxSet == {TxGood("V0"), TxGood("Legacy"), TxBad("V0"), TxBad("Legacy"), TxEmpty("Legacy")}
TxSetConc == {TxGood("V0")}

Batches(pool) == UNION {[1..n -> pool] : n \in 0..MaxBatch}

\* ---------------------------------------------------------------- state
VARIABLES
  callers,      \* tasks that call the adapter in this run
  txPool,       \* transactions the callers hold
  tradeTypes,   \* trade type tags the callers pass
  pc,           \* per task: "idle", "rpc", "polling", "done", "panicked"
  op,           \* per task: the trait call in progress and its arguments
  idx,          \* per task: position of the for loop of send_transactions
  cur,          \* per task: arguments of the running send_transaction
  signature,    \* per task: local `signature` of send_transaction
  start_time,   \* per task: local `start_time` of send_transaction
  pollSig,      \* per task: signature argument the poller was given
  clock,        \* per task: Instant::now(), counted from the call's start
  result,       \* per task: what the trait call returned
  hist,         \* per task: events of the trait call in progress
  log,          \* per task: for each send_transaction of the call, the lines it logged
  sigCount,     \* RPC: number of signatures handed out
  sync          \* per task: the get_tip_account / get_swqos_type call and its value

vars == <<callers, txPool, tradeTypes, pc, op, idx, cur, signature, start_time, pollSig,
          clock, result, hist, log, sigCount, sync>>

NoOp == [kind |-> "none", trade_type |-> "", txs |-> <<>>, wait |-> FALSE]
NoFrame == [trade_type |-> "", transaction |-> NoTx, wait_confirmation |-> FALSE]
NoSync == [method |-> "", ok |-> FALSE, value |-> ""]

Ev(e, i, s, n, f, tx) == [ev |-> e, i |-> i, str |-> s, num |-> n, flag |-> f, tx |-> tx]
Line(lvl, m, s, n, l) == [level |-> lvl, msg |-> m, str |-> s, num |-> n, list |-> l]

\* ---------------------------------------------------------------- logging
\* the loop body of print_versioned_transaction_instructions from
\* instruction i on: the account_keys lookup comes first and panics when
\* the index is out of range, otherwise four lines are written.
RECURSIVE InstructionLines(_, _)
InstructionLines(message, i) ==
  IF i > Len(message.instructions)
    THEN [lines |-> <<>>, panicked |-> FALSE]
    ELSE LET instruction == message.instructions[i] IN
         IF instruction.program_id_index >= Len(message.account_keys)
           THEN [lines |-> <<>>, panicked |-> TRUE]
           ELSE LET program_id == message.account_keys[instruction.program_id_index + 1]
                    rest == InstructionLines(message, i + 1)
                IN [lines |-> << Line("error", "Instruction", "", i - 1, <<>>),
                                 Line("error", "Program ID", "", program_id, <<>>),
                                 Line("error", "Account Indices", "", 0, instruction.accounts),
                                 Line("error", "Data (bytes)", "", 0, instruction.data) >>
                               \o rest.lines,
                    panicked |-> rest.panicked]

print_versioned_transaction_instructions(tx) ==
  LET body == InstructionLines(tx, 1)
      head == IF tx.version = "V0"
                THEN Line("error", "Transaction Version", "V0", 0, <<>>)
                ELSE Line("error", "Transaction Version", "Legacy", 0, <<>>)
  IN [lines |-> <<head>> \o body.lines, panicked |-> body.panicked]

\* lines 85-88 without the `if wait_confirmation`
SuccessLinesAlways(frame, sig, elapsed) ==
  << Line("info", "signature", "", sig, <<>>),
     Line("info", "confirmed", frame.trade_type, elapsed, <<>>) >>

\* lines 85-88: the two info lines, written only when wait_confirmation
SuccessLines(frame, sig, elapsed) ==
  IF frame.wait_confirmation
    THEN << Line("info", "signature", "", sig, <<>>),
            Line("info", "confirmed", frame.trade_type, elapsed, <<>>) >>
    ELSE <<>>

\* lines 74-90 with the Err arm falling through instead of returning
ConfirmationOutcomeSwallow(frame, sig, elapsed, res) ==
  [lines |-> SuccessLines(frame, sig, elapsed), panicked |-> FALSE, ret |-> Ok]

\* lines 74-90: what send_transaction does with the poller's answer
ConfirmationOutcome(frame, sig, elapsed, res) ==
  IF res # Ok
    THEN LET dump == print_versioned_transaction_instructions(frame.transaction) IN
         [lines |-> << Line("error", "signature", "", sig, <<>>),
                       Line("error", "confirmation failed", frame.trade_type, elapsed, <<>>) >>
                    \o dump.lines
                    \o (IF dump.panicked THEN <<>>
                        ELSE <<Line("error", "RPC transaction error", res, 0, <<>>)>>),
          panicked |-> dump.panicked,
          ret |-> res]
    ELSE [lines |-> SuccessLines(frame, sig, elapsed), panicked |-> FALSE, ret |-> Ok]

\* ---------------------------------------------------------------- calls
\* line 100 passing a constant instead of wait_confirmation
CallArgsNoWait(o, i) ==
  [trade_type |-> o.trade_type, transaction |-> o.txs[i], wait_confirmation |-> FALSE]

\* line 100: the arguments send_transactions passes for list position i
CallArgs(o, i) ==
  [trade_type |-> o.trade_type, transaction |-> o.txs[i], wait_confirmation |-> o.wait]

\* lines 99-102 without the `?`: the loop goes on after a failed call
BatchNextKeepGoing(o, i, ret) ==
  IF i >= Len(o.txs) THEN [done |-> TRUE, result |-> ret, idx |-> i]
  ELSE [done |-> FALSE, result |-> "none", idx |-> i + 1]

\* lines 99-102: the for loop after the call for position i returned ret
BatchNext(o, i, ret) ==
  IF ret # Ok THEN [done |-> TRUE, result |-> ret, idx |-> i]
  ELSE IF i >= Len(o.txs) THEN [done |-> TRUE, result |-> Ok, idx |-> i]
  ELSE [done |-> FALSE, result |-> "none", idx |-> i + 1]

\* line 71 with the error logged before it is returned
SubmitFailureLogged(e) ==
  [ret |-> e, lines |-> <<Line("error", "RPC transaction error", e, 0, <<>>)>>]

\* line 71: `?` on the submission result
SubmitFailure(e) == [ret |-> e, lines |-> <<>>]

\* line 74 polling the signature the RPC handed out before this submission
PollSignatureStale(t, sig) == sigCount

\* line 74 passing a constant instead of wait_confirmation
PollArgWaitAlways(frame) == TRUE

\* line 74: the arguments handed to poll_transaction_confirmation
PollSignature(t, sig) == sig
PollArgWait(frame) == frame.wait_confirmation

\* poll_transaction_confirmation with wait_confirmation = false answers Ok
\* at once, without a status query
PollerReturnsAtOnce(wait) == ~wait

\* the log after the send_transaction for list position i wrote lines
Written(lg, i, lines) == [lg EXCEPT ![i] = @ \o lines]

EnterEv(i, frame) ==
  Ev("enter", i, frame.trade_type, 0, frame.wait_confirmation, frame.transaction)

\* send_transaction returns ret to its caller: the trait call ends, or the
\* loop of send_transactions goes on to the next transaction and issues
\* its RPC submission.  h and lg are hist[t] and log[t] with the events and
\* the lines of this step.
ReturnToCaller(t, ret, h, lg) ==
  LET nxt == IF op[t].kind = "batch" THEN BatchNext(op[t], idx[t], ret)
             ELSE [done |-> TRUE, result |-> ret, idx |-> idx[t]]
      h1 == Append(h, Ev("exit", idx[t], ret, 0, FALSE, NoTx))
  IN /\ pc' = [pc EXCEPT ![t] = IF nxt.done THEN "done" ELSE "rpc"]
     /\ result' = [result EXCEPT ![t] = IF nxt.done THEN nxt.result ELSE @]
     /\ idx' = [idx EXCEPT ![t] = nxt.idx]
     /\ cur' = [cur EXCEPT ![t] = IF nxt.done THEN @ ELSE CallArgs(op[t], nxt.idx)]
     /\ hist' = [hist EXCEPT ![t] =
                   IF nxt.done THEN Append(h1, Ev("return", 0, nxt.result, 0, FALSE, NoTx))
                   ELSE Append(h1, EnterEv(nxt.idx, CallArgs(op[t], nxt.idx)))]
     /\ log' = [log EXCEPT ![t] = IF nxt.done THEN lg ELSE Append(lg, <<>>)]

\* the poller answered res: lines 74-90, then the return to the caller
Continue(t, sig, started, res, h) ==
  LET out == ConfirmationOutcome(cur[t], sig, clock[t] - started, res) IN
  IF out.panicked
    THEN /\ pc' = [pc EXCEPT ![t] = "panicked"]
         /\ hist' = [hist EXCEPT ![t] = Append(h, Ev("panic", idx[t], "", 0, FALSE, NoTx))]
         /\ log' = [log EXCEPT ![t] = Written(log[t], idx[t], out.lines)]
         /\ UNCHANGED <<result, idx, cur>>
    ELSE ReturnToCaller(t, out.ret, h, Written(log[t], idx[t], out.lines))

\* ---------------------------------------------------------------- actions
Init ==
  /\ callers = {"a"}
  /\ txPool = TxSet
  /\ tradeTypes = TradeTypes
  /\ pc = [t \in Tasks |-> "idle"]
  /\ op = [t \in Tasks |-> NoOp]
  /\ idx = [t \in Tasks |-> 0]
  /\ cur = [t \in Tasks |-> NoFrame]
  /\ signature = [t \in Tasks |-> 0]
  /\ start_time = [t \in Tasks |-> 0]
  /\ pollSig = [t \in Tasks |-> 0]
  /\ clock = [t \in Tasks |-> 0]
  /\ result = [t \in Tasks |-> "none"]
  /\ hist = [t \in Tasks |-> <<>>]
  /\ log = [t \in Tasks |-> <<>>]
  /\ sigCount = 0
  /\ sync = [t \in Tasks |-> NoSync]

InitConc ==
  /\ callers = Tasks
  /\ txPool = TxSetConc
  /\ tradeTypes = {"Buy"}
  /\ pc = [t \in Tasks |-> "idle"]
  /\ op = [t \in Tasks |-> NoOp]
  /\ idx = [t \in Tasks |-> 0]
  /\ cur = [t \in Tasks |-> NoFrame]
  /\ signature = [t \in Tasks |-> 0]
  /\ start_time = [t \in Tasks |-> 0]
  /\ pollSig = [t \in Tasks |-> 0]
  /\ clock = [t \in Tasks |-> 0]
  /\ result = [t \in Tasks |-> "none"]
  /\ hist = [t \in Tasks |-> <<>>]
  /\ log = [t \in Tasks |-> <<>>]
  /\ sigCount = 0
  /\ sync = [t \in Tasks |-> NoSync]

\* a caller calls send_transaction: lines 53-71 up to the first await
CallSendTransaction(t) ==
  /\ pc[t] = "idle"
  /\ \E tt \in tradeTypes, tx \in txPool, w \in BOOLEAN :
       LET frame == [trade_type |-> tt, transaction |-> tx, wait_confirmation |-> w] IN
       /\ op' = [op EXCEPT ![t] = [kind |-> "single", trade_type |-> tt, txs |-> <<tx>>, wait |-> w]]
       /\ cur' = [cur EXCEPT ![t] = frame]
       /\ hist' = [hist EXCEPT ![t] = <<EnterEv(1, frame)>>]
  /\ idx' = [idx EXCEPT ![t] = 1]
  /\ pc' = [pc EXCEPT ![t] = "rpc"]
  /\ log' = [log EXCEPT ![t] = << <<>> >>]
  /\ UNCHANGED <<callers, txPool, tradeTypes, signature, start_time, pollSig, clock, result, sigCount, sync>>

\* a caller calls send_transactions: lines 93-103 up to the first await
CallSendTransactions(t) ==
  /\ pc[t] = "idle"
  /\ \E tt \in tradeTypes, txs \in Batches(txPool), w \in BOOLEAN :
       LET o == [kind |-> "batch", trade_type |-> tt, txs |-> txs, wait |-> w] IN
       /\ op' = [op EXCEPT ![t] = o]
       /\ IF txs = <<>>
            THEN /\ pc' = [pc EXCEPT ![t] = "done"]
                 /\ result' = [result EXCEPT ![t] = Ok]
                 /\ hist' = [hist EXCEPT ![t] = <<Ev("return", 0, Ok, 0, FALSE, NoTx)>>]
                 /\ UNCHANGED <<idx, cur, log>>
            ELSE /\ pc' = [pc EXCEPT ![t] = "rpc"]
                 /\ idx' = [idx EXCEPT ![t] = 1]
                 /\ cur' = [cur EXCEPT ![t] = CallArgs(o, 1)]
                 /\ hist' = [hist EXCEPT ![t] = <<EnterEv(1, CallArgs(o, 1))>>]
                 /\ log' = [log EXCEPT ![t] = << <<>> >>]
                 /\ UNCHANGED result
  /\ UNCHANGED <<callers, txPool, tradeTypes, signature, start_time, pollSig, clock, sigCount, sync>>

\* send_transaction_with_config answers with an error: line 71 returns it
RpcErr(t) ==
  /\ pc[t] = "rpc"
  /\ \E e \in SubmitErrs :
       LET f == SubmitFailure(e) IN
       ReturnToCaller(t, f.ret,
         Append(hist[t], Ev("rpc_ret", idx[t], e, 0, FALSE, cur[t].transaction)),
         Written(log[t], idx[t], f.lines))
  /\ UNCHANGED <<callers, txPool, tradeTypes, op, signature, start_time, pollSig, clock, sigCount, sync>>

\* send_transaction_with_config answers with a signature: lines 59-74, and
\* lines 74-90 when the poller answers without suspending
RpcOk(t) ==
  /\ pc[t] = "rpc"
  /\ sigCount < MaxSigs
  /\ LET sig == sigCount + 1
         psig == PollSignature(t, sig)
         w == PollArgWait(cur[t])
         h == hist[t] \o << Ev("rpc_ret", idx[t], Ok, sig, FALSE, cur[t].transaction),
                            Ev("poll_call", idx[t], "", psig, w, NoTx) >>
     IN /\ sigCount' = sig
        /\ signature' = [signature EXCEPT ![t] = sig]
        /\ start_time' = [start_time EXCEPT ![t] = clock[t]]
        /\ pollSig' = [pollSig EXCEPT ![t] = psig]
        /\ IF PollerReturnsAtOnce(w)
             THEN Continue(t, sig, clock[t], Ok, Append(h, Ev("poll_ret", idx[t], Ok, psig, FALSE, NoTx)))
             ELSE /\ pc' = [pc EXCEPT ![t] = "polling"]
                  /\ hist' = [hist EXCEPT ![t] = h]
                  /\ UNCHANGED <<result, idx, cur, log>>
  /\ UNCHANGED <<callers, txPool, tradeTypes, op, clock, sync>>

\* the poller queries the status, finds the transaction pending and sleeps
PollPending(t) ==
  /\ pc[t] = "polling"
  /\ clock[t] < MaxTime
  /\ clock' = [clock EXCEPT ![t] = @ + 1]
  /\ hist' = [hist EXCEPT ![t] = Append(@, Ev("status_query", idx[t], "pending", pollSig[t], FALSE, NoTx))]
  /\ UNCHANGED <<callers, txPool, tradeTypes, pc, op, idx, cur, signature, start_time, pollSig,
                 result, log, sigCount, sync>>

\* the poller queries the status and answers: confirmed, failed on chain,
\* or timed out; send_transaction goes on with lines 74-90
PollFinish(t) ==
  /\ pc[t] = "polling"
  /\ \E res \in {Ok} \cup PollErrs :
       Continue(t, signature[t], start_time[t], res,
         hist[t] \o << Ev("status_query", idx[t], res, pollSig[t], FALSE, NoTx),
                       Ev("poll_ret", idx[t], res, pollSig[t], FALSE, NoTx) >>)
  /\ UNCHANGED <<callers, txPool, tradeTypes, op, signature, start_time, pollSig, clock, sigCount, sync>>

\* the caller takes the result (or the panicked task is replaced)
Finish(t) ==
  /\ pc[t] \in {"done", "panicked"}
  /\ pc' = [pc EXCEPT ![t] = "idle"]
  /\ op' = [op EXCEPT ![t] = NoOp]
  /\ idx' = [idx EXCEPT ![t] = 0]
  /\ cur' = [cur EXCEPT ![t] = NoFrame]
  /\ signature' = [signature EXCEPT ![t] = 0]
  /\ start_time' = [start_time EXCEPT ![t] = 0]
  /\ pollSig' = [pollSig EXCEPT ![t] = 0]
  /\ clock' = [clock EXCEPT ![t] = 0]
  /\ result' = [result EXCEPT ![t] = "none"]
  /\ hist' = [hist EXCEPT ![t] = <<>>]
  /\ log' = [log EXCEPT ![t] = <<>>]
  /\ sync' = [sync EXCEPT ![t] = NoSync]
  /\ UNCHANGED <<callers, txPool, tradeTypes, sigCount>>

\* lines 105-107 answering from the RPC client's state
get_tip_account_from_rpc ==
  [method |-> "get_tip_account", ok |-> TRUE, value |-> IF sigCount > 0 THEN "tip" ELSE ""]

\* lines 105-107
get_tip_account == [method |-> "get_tip_account", ok |-> TRUE, value |-> ""]

\* lines 109-111
get_swqos_type == [method |-> "get_swqos_type", ok |-> TRUE, value |-> "Default"]

\* a caller calls get_tip_account; the method does not suspend
GetTipAccount(t) ==
  /\ pc[t] = "idle"
  /\ pc' = [pc EXCEPT ![t] = "done"]
  /\ sync' = [sync EXCEPT ![t] = get_tip_account]
  /\ UNCHANGED <<callers, txPool, tradeTypes, op, idx, cur, signature, start_time, pollSig,
                 clock, result, hist, log, sigCount>>

\* a caller calls get_swqos_type; the method does not suspend
GetSwqosType(t) ==
  /\ pc[t] = "idle"
  /\ pc' = [pc EXCEPT ![t] = "done"]
  /\ sync' = [sync EXCEPT ![t] = get_swqos_type]
  /\ UNCHANGED <<callers, txPool, tradeTypes, op, idx, cur, signature, start_time, pollSig,
                 clock, result, hist, log, sigCount>>

Next ==
  \/ \E t \in callers : CallSendTransaction(t)
  \/ \E t \in callers : CallSendTransactions(t)
  \/ \E t \in callers : RpcErr(t)
  \/ \E t \in callers : RpcOk(t)
  \/ \E t \in callers : PollPending(t)
  \/ \E t \in callers : PollFinish(t)
  \/ \E t \in callers : Finish(t)
  \/ \E t \in callers : GetTipAccount(t)
  \/ \E t \in callers : GetSwqosType(t)

Spec == Init /\ [][Next]_vars
SpecConc == InitConc /\ [][Next]_vars

\* ---------------------------------------------------------------- reading the history
\* positions of the events e of the send_transaction for list position i
Pos(t, e, i) == {k \in DOMAIN hist[t] : hist[t][k].ev = e /\ hist[t][k].i = i}

\* list positions for which send_transaction was called
Entered(t) == {hist[t][k].i : k \in {j \in DOMAIN hist[t] : hist[t][j].ev = "enter"}}

Exited(t, i) == Pos(t, "exit", i) # {}
ExitOf(t, i) == hist[t][CHOOSE k \in Pos(t, "exit", i) : TRUE].str
ArgsOf(t, i) == hist[t][CHOOSE k \in Pos(t, "enter", i) : TRUE]
SubmitOk(t, i) == \E k \in Pos(t, "rpc_ret", i) : hist[t][k].str = Ok
SubmitSig(t, i) == hist[t][CHOOSE k \in Pos(t, "rpc_ret", i) : TRUE].num
SubmitFailed(t, i) == \E k \in Pos(t, "rpc_ret", i) : hist[t][k].str \in SubmitErrs
PollFailed(t, i) == \E k \in Pos(t, "poll_ret", i) : hist[t][k].str \in PollErrs
PollAnswer(t, i) == hist[t][CHOOSE k \in Pos(t, "poll_ret", i) : TRUE].str

\* time that passed between start_time and the poller's answer
ElapsedOf(t, i) == Cardinality({k \in Pos(t, "status_query", i) : hist[t][k].str = "pending"})

LinesAt(t, i, lvl, m) ==
  {k \in DOMAIN log[t][i] : log[t][i][k].level = lvl /\ log[t][i][k].msg = m}
InfoLines(t, i) == {k \in DOMAIN log[t][i] : log[t][i][k].level = "info"}
HoldsSignature(line, sig) == line.msg = "signature" /\ line.num = sig
HoldsElapsed(line, elapsed) == line.msg = "confirmed" /\ line.num = elapsed

\* ---------------------------------------------------------------- C1
\* C1 as stated: a send_transaction with wait_confirmation = false whose
\* submission succeeded returns success and never invoked the poller.
C1_Original ==
  \A t \in Tasks : \A i \in Entered(t) :
    (Exited(t, i) /\ ~ArgsOf(t, i).flag /\ SubmitOk(t, i))
      => /\ ExitOf(t, i) = Ok
         /\ Pos(t, "poll_call", i) = {}

\* C1 amended: a send_transaction with wait_confirmation = false whose
\* submission succeeded returns success; the poller is invoked exactly once,
\* with wait_confirmation = false, and makes no status query.
C1_NoWaitReturnsSuccess ==
  \A t \in Tasks : \A i \in Entered(t) :
    (Exited(t, i) /\ ~ArgsOf(t, i).flag /\ SubmitOk(t, i))
      => /\ ExitOf(t, i) = Ok
         /\ Cardinality(Pos(t, "poll_call", i)) = 1
         /\ \A k \in Pos(t, "poll_call", i) : ~hist[t][k].flag
         /\ Pos(t, "status_query", i) = {}

C1_Witness ==
  \E t \in Tasks : \E i \in Entered(t) :
    /\ Exited(t, i) /\ ~ArgsOf(t, i).flag /\ SubmitOk(t, i)
    /\ Pos(t, "poll_call", i) # {}

\* ---------------------------------------------------------------- C2
\* C2: when send_transactions has returned, send_transaction was called for
\* the list positions 1..K and no other, where K is the first position
\* whose call failed and the result is that call's error; without a failure
\* K is the length of the list and the result is success.  At no time is
\* there a call for a position behind a failed one.
C2_BatchStopsAtFirstFailure ==
  \A t \in Tasks :
    op[t].kind = "batch" =>
      LET n == Len(op[t].txs)
          failed == {i \in Entered(t) : Exited(t, i) /\ ExitOf(t, i) # Ok}
          submitted == {hist[t][k].i : k \in {j \in DOMAIN hist[t] : hist[t][j].ev = "rpc_ret"}}
      IN /\ \A i \in failed : \A j \in Entered(t) \cup submitted : j <= i
         /\ \A i \in Entered(t) : Cardinality(Pos(t, "enter", i)) = 1
         /\ submitted \subseteq Entered(t)
         /\ pc[t] = "done" =>
              /\ \A i \in Entered(t) : Exited(t, i)
              /\ submitted = Entered(t)
              /\ IF failed = {}
                   THEN Entered(t) = 1..n /\ result[t] = Ok
                   ELSE \E k \in failed :
                          /\ failed = {k}
                          /\ Entered(t) = 1..k
                          /\ result[t] = ExitOf(t, k)
                          /\ result[t] \in SubmitErrs \cup PollErrs

C2_Witness ==
  \E t \in Tasks :
    /\ op[t].kind = "batch" /\ pc[t] = "done"
    /\ Len(op[t].txs) = 2
    /\ Entered(t) = {1}
    /\ result[t] \in PollErrs

\* ---------------------------------------------------------------- C3
\* C3: a send_transaction with wait_confirmation = true whose submission
\* succeeded returns success only after the poller, invoked after the
\* submission with wait_confirmation = true, answered Ok.
C3_SuccessOnlyAfterConfirmation ==
  \A t \in Tasks : \A i \in Entered(t) :
    (Exited(t, i) /\ ArgsOf(t, i).flag /\ SubmitOk(t, i) /\ ExitOf(t, i) = Ok)
      => \E kr \in Pos(t, "rpc_ret", i), kp \in Pos(t, "poll_call", i),
            kq \in Pos(t, "poll_ret", i), ke \in Pos(t, "exit", i) :
           /\ kr < kp /\ kp < kq /\ kq < ke
           /\ hist[t][kp].flag
           /\ hist[t][kq].str = Ok

C3_Witness ==
  \E t \in Tasks : \E i \in Entered(t) :
    /\ Exited(t, i) /\ ArgsOf(t, i).flag /\ SubmitOk(t, i) /\ ExitOf(t, i) = Ok
    /\ ElapsedOf(t, i) > 0

\* ---------------------------------------------------------------- C4
\* C4 as stated: once the poller answered a send_transaction with an error
\* e, the call returns e and has logged the signature, the elapsed time,
\* one entry per instruction of the transaction (program id, account
\* indices, data bytes) and the error e, for both message shapes, and no
\* success line.
C4_Claim ==
  \A t \in Tasks : \A i \in Entered(t) :
    PollFailed(t, i) =>
      LET e == PollAnswer(t, i)
          tx == ArgsOf(t, i).tx
          lg == log[t][i]
      IN /\ Exited(t, i) /\ ExitOf(t, i) = e
         /\ \E k \in LinesAt(t, i, "error", "signature") : lg[k].num = SubmitSig(t, i)
         /\ \E k \in LinesAt(t, i, "error", "confirmation failed") : lg[k].num = ElapsedOf(t, i)
         /\ \E k \in LinesAt(t, i, "error", "Transaction Version") : lg[k].str = tx.version
         /\ \A j \in DOMAIN tx.instructions :
              \E k \in LinesAt(t, i, "error", "Instruction") :
                /\ lg[k].num = j - 1
                /\ k + 3 \in DOMAIN lg
                /\ lg[k + 1].msg = "Program ID"
                /\ lg[k + 2].msg = "Account Indices"
                /\ lg[k + 2].list = tx.instructions[j].accounts
                /\ lg[k + 3].msg = "Data (bytes)"
                /\ lg[k + 3].list = tx.instructions[j].data
         /\ Cardinality(LinesAt(t, i, "error", "Instruction")) = Len(tx.instructions)
         /\ \E k \in LinesAt(t, i, "error", "RPC transaction error") : lg[k].str = e
         /\ InfoLines(t, i) = {}

\* ---------------------------------------------------------------- C5
\* C5: a send_transaction whose submission failed with e has returned e,
\* made one submission, never invoked the poller and logged nothing.
C5_SubmitFailureReturned ==
  \A t \in Tasks : \A i \in Entered(t) :
    SubmitFailed(t, i) =>
      /\ Exited(t, i)
      /\ ExitOf(t, i) = hist[t][CHOOSE k \in Pos(t, "rpc_ret", i) : TRUE].str
      /\ Cardinality(Pos(t, "rpc_ret", i)) = 1
      /\ Pos(t, "poll_call", i) = {}
      /\ Pos(t, "status_query", i) = {}
      /\ log[t][i] = <<>>

C5_Witness ==
  \E t \in Tasks : \E i \in Entered(t) :
    /\ SubmitFailed(t, i) /\ Exited(t, i)
    /\ ArgsOf(t, i).flag
    /\ i = 2

\* ---------------------------------------------------------------- C6
\* C6: every invocation of the poller, and every status query it makes,
\* carries the signature the RPC returned earlier in the same
\* send_transaction, and no other submission returned that signature.
C6_PollUsesOwnSignature ==
  \A t \in Tasks : \A k \in DOMAIN hist[t] :
    hist[t][k].ev \in {"poll_call", "status_query"} =>
      /\ \E j \in 1..(k - 1) :
           /\ hist[t][j].ev = "rpc_ret" /\ hist[t][j].str = Ok
           /\ hist[t][j].i = hist[t][k].i
           /\ hist[t][j].num = hist[t][k].num
      /\ \A u \in Tasks : \A j \in DOMAIN hist[u] :
           (hist[u][j].ev = "rpc_ret" /\ hist[u][j].str = Ok /\ hist[u][j].num = hist[t][k].num)
             => (u = t /\ hist[u][j].i = hist[t][k].i)

C6_Witness ==
  \E t \in Tasks, u \in Tasks :
    /\ t # u
    /\ pc[t] = "polling" /\ pc[u] = "polling"
    /\ idx[t] = 2
    /\ Pos(u, "status_query", idx[u]) # {}

\* ---------------------------------------------------------------- C7
\* C7 as stated: a returned send_transaction has logged exactly one success
\* line, holding the signature and the elapsed time, when
\* wait_confirmation = true and it returned success, and none otherwise.
C7_Original ==
  \A t \in Tasks : \A i \in Entered(t) :
    Exited(t, i) =>
      IF ArgsOf(t, i).flag /\ ExitOf(t, i) = Ok
        THEN /\ Cardinality(InfoLines(t, i)) = 1
             /\ \A k \in InfoLines(t, i) :
                  /\ HoldsSignature(log[t][i][k], SubmitSig(t, i))
                  /\ HoldsElapsed(log[t][i][k], ElapsedOf(t, i))
        ELSE InfoLines(t, i) = {}

\* C7 amended: a returned send_transaction has logged exactly two info
\* lines, the first holding the signature, the second ("confirmed") the
\* trade type and the elapsed time, when wait_confirmation = true and it
\* returned success; otherwise, and after a panic, no info line.
C7_SuccessLines ==
  \A t \in Tasks : \A i \in Entered(t) :
    (Exited(t, i) \/ Pos(t, "panic", i) # {}) =>
      IF Exited(t, i) /\ ArgsOf(t, i).flag /\ ExitOf(t, i) = Ok
        THEN log[t][i] = << Line("info", "signature", "", SubmitSig(t, i), <<>>),
                            Line("info", "confirmed", ArgsOf(t, i).str, ElapsedOf(t, i), <<>>) >>
        ELSE InfoLines(t, i) = {}

C7_Witness ==
  \E t \in Tasks : \E i \in Entered(t) :
    /\ Exited(t, i) /\ ArgsOf(t, i).flag /\ ExitOf(t, i) = Ok
    /\ ElapsedOf(t, i) = 1
    /\ Cardinality(InfoLines(t, i)) = 2

\* ---------------------------------------------------------------- C8
\* C8: send_transactions calls send_transaction for the list positions in
\* order, the call for position i + 1 directly after the call for position i
\* returned success (after its poll answered), each with the trade type,
\* the wait flag and the transaction of that position, and what is
\* submitted is that transaction.
C8_BatchSerialInOrder ==
  \A t \in Tasks :
    op[t].kind = "batch" =>
      \A k \in DOMAIN hist[t] :
        /\ hist[t][k].ev = "enter" =>
             /\ hist[t][k].i \in 1..Len(op[t].txs)
             /\ hist[t][k].str = op[t].trade_type
             /\ hist[t][k].flag = op[t].wait
             /\ hist[t][k].tx = op[t].txs[hist[t][k].i]
             /\ IF k = 1 THEN hist[t][k].i = 1
                ELSE /\ hist[t][k - 1].ev = "exit"
                     /\ hist[t][k - 1].str = Ok
                     /\ hist[t][k - 1].i + 1 = hist[t][k].i
                     /\ \A j \in 1..(k - 1) : hist[t][j].i < hist[t][k].i
                     /\ Pos(t, "poll_ret", hist[t][k - 1].i) # {}
        /\ hist[t][k].ev = "rpc_ret" => hist[t][k].tx = op[t].txs[hist[t][k].i]
        /\ hist[t][k].ev = "poll_call" => hist[t][k].flag = op[t].wait

C8_Witness ==
  \E t \in Tasks :
    /\ op[t].kind = "batch" /\ pc[t] = "done" /\ op[t].wait
    /\ Len(op[t].txs) = 2 /\ op[t].txs[1] # op[t].txs[2]
    /\ result[t] = Ok
    /\ ElapsedOf(t, 1) > 0

\* ---------------------------------------------------------------- C9
\* C9: get_tip_account returns Ok("") and get_swqos_type returns Default,
\* whatever calls were made before.
C9_GettersAreConstant ==
  \A t \in Tasks :
    /\ sync[t].method = "get_tip_account" => (sync[t].ok /\ sync[t].value = "")
    /\ sync[t].method = "get_swqos_type" => sync[t].value = "Default"

C9_Witness ==
  \E t \in Tasks :
    /\ sync[t].method = "get_tip_account"
    /\ sigCount = MaxSigs

\* ---------------------------------------------------------------- C10
\* C10 as stated: on the confirmation-failure path every instruction's
\* program_id_index lies within the account key list, and send_transaction
\* gets to return the poller's error.
C10_Claim ==
  \A t \in Tasks : \A i \in Entered(t) :
    PollFailed(t, i) =>
      /\ \A j \in DOMAIN ArgsOf(t, i).tx.instructions :
           ArgsOf(t, i).tx.instructions[j].program_id_index < Len(ArgsOf(t, i).tx.account_keys)
      /\ Exited(t, i)
      /\ ExitOf(t, i) = PollAnswer(t, i)

====
